---------------------------- MODULE Spec2Model ----------------------------
(***************************************************************************)
(* A model of maml-rs: the logos tokenizer (src/tokenizer.rs), the string  *)
(* unescaper (src/utils.rs) and the chumsky parser with its two entry      *)
(* points from_str and parse_with_report (src/parser.rs).                  *)
(*                                                                         *)
(* Text is a sequence of Unicode code points (naturals).  Every character  *)
(* the model feeds in is ASCII, so a byte offset is a 0-based index into   *)
(* the sequence.  Offsets are 0-based as in the Rust code.                 *)
(***************************************************************************)
EXTENDS Integers, Sequences, FiniteSets, TLC

VARIABLES
    entry,      \* which entry point runs: "from_str" or "parse_with_report"
    input,      \* the source text handed to the entry point
    pc,         \* "lex", "parse", "report" or "done"
    pos,        \* the lexer's offset into input
    tokens,     \* `tokens`: the Vec<Token> handed to the parser
    spans,      \* the byte span lexer.spanned() yielded with each token
    val,        \* the parser's output, an Option: <<>> or <<v>>
    errs,       \* the parser's errors (into_output_errors), in order
    result      \* what the entry point returned

vars == <<entry, input, pc, pos, tokens, spans, val, errs, result>>

-----------------------------------------------------------------------------
(* Characters                                                              *)

Ch ==
    [ tab |-> 9, lf |-> 10, ff |-> 12, cr |-> 13, bs |-> 8, space |-> 32,
      quote |-> 34, hash |-> 35, plus |-> 43, comma |-> 44, minus |-> 45,
      dot |-> 46, slash |-> 47, zero |-> 48, one |-> 49, two |-> 50,
      three |-> 51, four |-> 52, nine |-> 57, colon |-> 58, at |-> 64, upE |-> 69,
      lbracket |-> 91, backslash |-> 92, rbracket |-> 93, underscore |-> 95,
      a |-> 97, b |-> 98, d |-> 100, e |-> 101, f |-> 102, h |-> 104,
      l |-> 108, m |-> 109, n |-> 110, o |-> 111, r |-> 114, s |-> 115,
      t |-> 116, u |-> 117, w |-> 119, x |-> 120,
      lbrace |-> 123, rbrace |-> 125 ]

EOF == 0 - 1

Max(a, b) == IF a >= b THEN a ELSE b
Min(a, b) == IF a <= b THEN a ELSE b

\* The character at 0-based offset p, or EOF past the end.
At(s, p) == IF p >= 0 /\ p < Len(s) THEN s[p + 1] ELSE EOF

\* s[a..b) with 0-based offsets, like Rust's &s[a..b].
Slice(s, a, b) == SubSeq(s, a + 1, b)

IsDigit(c) == c \in 48..57
IsUpper(c) == c \in 65..90
IsLower(c) == c \in 97..122
IsHexDigit(c) == IsDigit(c) \/ c \in 65..70 \/ c \in 97..102
IsKeyStart(c) == IsUpper(c) \/ IsLower(c) \/ c = Ch.underscore \/ c = Ch.minus
IsKeyCont(c) == IsKeyStart(c) \/ IsDigit(c)

-----------------------------------------------------------------------------
(* The regular expressions of the Token enum.  Each operator gives the end *)
(* offset of the longest match starting at p, or -1 when nothing matches.  *)

NoMatch == 0 - 1

RECURSIVE DigitsEnd(_, _)
\* [0-9]*
DigitsEnd(s, p) == IF IsDigit(At(s, p)) THEN DigitsEnd(s, p + 1) ELSE p

\* -?(?:0|[1-9][0-9]*)
IntEnd(s, p) ==
    LET q == IF At(s, p) = Ch.minus THEN p + 1 ELSE p
    IN  IF At(s, q) = Ch.zero THEN q + 1
        ELSE IF IsDigit(At(s, q)) THEN DigitsEnd(s, q + 1)
        ELSE NoMatch

\* [eE][+-]?[0-9]+
ExpEnd(s, p) ==
    IF At(s, p) \in {Ch.e, Ch.upE}
    THEN LET q == IF At(s, p + 1) \in {Ch.plus, Ch.minus} THEN p + 2 ELSE p + 1
         IN  IF IsDigit(At(s, q)) THEN DigitsEnd(s, q) ELSE NoMatch
    ELSE NoMatch

\* -?(?:0|[1-9][0-9]*)\.[0-9]+(?:[eE][+-]?[0-9]+)?
FloatDotEnd(s, p) ==
    LET i == IntEnd(s, p)
    IN  IF i # NoMatch /\ At(s, i) = Ch.dot /\ IsDigit(At(s, i + 1))
        THEN LET f == DigitsEnd(s, i + 1)
                 x == ExpEnd(s, f)
             IN  IF x # NoMatch THEN x ELSE f
        ELSE NoMatch

\* -?(?:0|[1-9][0-9]*)[eE][+-]?[0-9]+
FloatExpEnd(s, p) ==
    LET i == IntEnd(s, p)
    IN  IF i # NoMatch THEN ExpEnd(s, i) ELSE NoMatch

RECURSIVE HexRunEnd(_, _, _)
\* [0-9a-fA-F]{0,left}
HexRunEnd(s, p, left) ==
    IF left > 0 /\ IsHexDigit(At(s, p)) THEN HexRunEnd(s, p + 1, left - 1) ELSE p

RECURSIVE StringBodyEnd(_, _)
\* (?:[^"\\]|\\["\\/bfnrt]|\\u\{[0-9a-fA-F]{1,6}\})*"
StringBodyEnd(s, p) ==
    LET c == At(s, p)
    IN  IF c = EOF THEN NoMatch
        ELSE IF c = Ch.quote THEN p + 1
        ELSE IF c = Ch.backslash
        THEN LET d == At(s, p + 1)
             IN  IF d \in {Ch.quote, Ch.backslash, Ch.slash, Ch.b, Ch.f,
                           Ch.n, Ch.r, Ch.t}
                 THEN StringBodyEnd(s, p + 2)
                 ELSE IF d = Ch.u /\ At(s, p + 2) = Ch.lbrace
                 THEN LET h == HexRunEnd(s, p + 3, 6)
                      IN  IF h > p + 3 /\ At(s, h) = Ch.rbrace
                          THEN StringBodyEnd(s, h + 1)
                          ELSE NoMatch
                 ELSE NoMatch
        ELSE StringBodyEnd(s, p + 1)

\* "(?:...)*"
StringEnd(s, p) ==
    IF At(s, p) = Ch.quote THEN StringBodyEnd(s, p + 1) ELSE NoMatch

RECURSIVE RawBodyEnd(_, _)
\* ([^"]|"[^"]|""[^"])*"""
RawBodyEnd(s, p) ==
    LET c0 == At(s, p)
        c1 == At(s, p + 1)
        c2 == At(s, p + 2)
    IN  IF c0 = EOF THEN NoMatch
        ELSE IF c0 # Ch.quote THEN RawBodyEnd(s, p + 1)
        ELSE IF c1 = EOF THEN NoMatch
        ELSE IF c1 # Ch.quote THEN RawBodyEnd(s, p + 2)
        ELSE IF c2 = EOF THEN NoMatch
        ELSE IF c2 # Ch.quote THEN RawBodyEnd(s, p + 3)
        ELSE p + 3

\* """([^"]|"[^"]|""[^"])*"""
RawStringEnd(s, p) ==
    IF At(s, p) = Ch.quote /\ At(s, p + 1) = Ch.quote /\ At(s, p + 2) = Ch.quote
    THEN RawBodyEnd(s, p + 3)
    ELSE NoMatch

RECURSIVE KeyContEnd(_, _)
\* [a-zA-Z0-9_-]*
KeyContEnd(s, p) == IF IsKeyCont(At(s, p)) THEN KeyContEnd(s, p + 1) ELSE p

\* [a-zA-Z_-][a-zA-Z0-9_-]*
KeyIdentEnd(s, p) ==
    IF IsKeyStart(At(s, p)) THEN KeyContEnd(s, p + 1) ELSE NoMatch

\* [0-9]+
KeyDigitsEnd(s, p) ==
    IF IsDigit(At(s, p)) THEN DigitsEnd(s, p + 1) ELSE NoMatch

\* #[token("...")]: the literal lit at p.
LiteralEnd(s, p, lit) ==
    IF p + Len(lit) <= Len(s) /\ Slice(s, p, p + Len(lit)) = lit
    THEN p + Len(lit)
    ELSE NoMatch

RECURSIVE BlankEnd(_, _)
\* [ \t]*
BlankEnd(s, p) ==
    IF At(s, p) \in {Ch.space, Ch.tab} THEN BlankEnd(s, p + 1) ELSE p

\* #[logos(skip r"[ \t]+")]
SkipEnd(s, p) ==
    IF At(s, p) \in {Ch.space, Ch.tab} THEN BlankEnd(s, p + 1) ELSE NoMatch

RECURSIVE NotLfEnd(_, _)
\* [^\n]*
NotLfEnd(s, p) ==
    IF At(s, p) \notin {EOF, Ch.lf} THEN NotLfEnd(s, p + 1) ELSE p

\* #[^\n]*
CommentEnd(s, p) ==
    IF At(s, p) = Ch.hash THEN NotLfEnd(s, p + 1) ELSE NoMatch

-----------------------------------------------------------------------------
(* Token callbacks                                                         *)

\* Option<T>: None is <<>>, Some(x) is <<x>>.
None == <<>>
Some(x) == <<x>>

\* The decimal digits of i64::MAX = 9223372036854775807; i64::MIN is one more
\* in magnitude.
I64MaxDigits == <<9, 2, 2, 3, 3, 7, 2, 0, 3, 6, 8, 5, 4, 7, 7, 5, 8, 0, 7>>
I64MinDigits == <<9, 2, 2, 3, 3, 7, 2, 0, 3, 6, 8, 5, 4, 7, 7, 5, 8, 0, 8>>

RECURSIVE StripZeros(_)
StripZeros(d) ==
    IF Len(d) > 1 /\ d[1] = 0 THEN StripZeros(Tail(d)) ELSE d

RECURSIVE LexLeq(_, _)
\* a <= b for digit strings of equal length.
LexLeq(a, b) ==
    IF a = <<>> THEN TRUE
    ELSE IF a[1] # b[1] THEN a[1] < b[1]
    ELSE LexLeq(Tail(a), Tail(b))

\* a <= b for decimal digit strings.
DecLeq(a, b) ==
    LET x == StripZeros(a)
        y == StripZeros(b)
    IN  IF Len(x) # Len(y) THEN Len(x) < Len(y) ELSE LexLeq(x, y)

\* The parse without the range test: any digits make an Int.
ParseI64Unchecked(lexeme) ==
    LET neg == lexeme[1] = Ch.minus
        body == IF neg THEN Tail(lexeme) ELSE lexeme
        digits == StripZeros([i \in 1..Len(body) |-> body[i] - Ch.zero])
    IN  Some([neg |-> neg /\ digits # <<0>>, mag |-> digits])

\* lex.slice().parse::<i64>().ok() on a slice the Int regex matched.  The
\* i64 is kept as sign and magnitude digits, since it does not fit the
\* integers of TLC; the range test is that of the checked arithmetic.
ParseI64(lexeme) ==
    LET neg == lexeme[1] = Ch.minus
        body == IF neg THEN Tail(lexeme) ELSE lexeme
        digits == StripZeros([i \in 1..Len(body) |-> body[i] - Ch.zero])
        fits == DecLeq(digits, IF neg THEN I64MinDigits ELSE I64MaxDigits)
    IN  IF body = <<>> \/ ~fits THEN None
        ELSE Some([neg |-> neg /\ digits # <<0>>, mag |-> digits])

HexVal(c) ==
    IF IsDigit(c) THEN c - 48 ELSE IF c >= 97 THEN c - 87 ELSE c - 55

\* char::from_u32: a Unicode scalar value.
IsScalarValue(code) == code <= 1114111 /\ ~(code >= 55296 /\ code <= 57343)

RECURSIVE HexLoop(_, _, _, _)
\* The loop of parse_string that reads the digits of \u{...}: the offset after
\* the closing brace with the number of digits and their value, or a failure.
HexLoop(s, p, n, code) ==
    LET c == At(s, p)
    IN  IF c = EOF THEN [ok |-> FALSE, next |-> p, n |-> n, code |-> code]
        ELSE IF c = Ch.rbrace
        THEN [ok |-> TRUE, next |-> p + 1, n |-> n, code |-> code]
        ELSE IF IsHexDigit(c) /\ n < 6
        THEN HexLoop(s, p + 1, n + 1, code * 16 + HexVal(c))
        ELSE [ok |-> FALSE, next |-> p, n |-> n, code |-> code]

\* What one escape letter pushes.
EscapeChar(d) ==
    CASE d = Ch.backslash -> Ch.backslash
      [] d = Ch.slash -> Ch.slash
      [] d = Ch.quote -> Ch.quote
      [] d = Ch.b -> Ch.bs
      [] d = Ch.f -> Ch.ff
      [] d = Ch.n -> Ch.lf
      [] d = Ch.r -> Ch.cr
      [] d = Ch.t -> Ch.tab

RECURSIVE ParseStringFrom(_, _, _)
ParseStringFrom(s, p, acc) ==
    LET c == At(s, p)
        d == At(s, p + 1)
    IN  IF c = EOF THEN Some(acc)
        ELSE IF c # Ch.backslash THEN ParseStringFrom(s, p + 1, Append(acc, c))
        ELSE IF d \in {Ch.backslash, Ch.slash, Ch.quote, Ch.b, Ch.f, Ch.n,
                       Ch.r, Ch.t}
        THEN ParseStringFrom(s, p + 2, Append(acc, EscapeChar(d)))
        ELSE IF d = Ch.u /\ At(s, p + 2) = Ch.lbrace
        THEN LET h == HexLoop(s, p + 3, 0, 0)
             IN  IF h.ok /\ h.n > 0 /\ IsScalarValue(h.code)
                 THEN ParseStringFrom(s, h.next, Append(acc, h.code))
                 ELSE None
        ELSE None

\* parse_string: the text with its escape sequences decoded, or None.
parse_string(s) == ParseStringFrom(s, 0, <<>>)

\* content.contains(pat)
Contains(content, pat) ==
    \E i \in 0..(Len(content) - Len(pat)) :
        Slice(content, i, i + Len(pat)) = pat

\* content.strip_prefix(pat), an Option.
StripPrefix(content, pat) ==
    IF Len(content) >= Len(pat) /\ Slice(content, 0, Len(pat)) = pat
    THEN Some(Slice(content, Len(pat), Len(content)))
    ELSE None

TripleQuote == <<Ch.quote, Ch.quote, Ch.quote>>

RECURSIVE TrimLineFeeds(_)
\* content.trim_start_matches('\n')
TrimLineFeeds(content) ==
    IF content # <<>> /\ content[1] = Ch.lf
    THEN TrimLineFeeds(Tail(content))
    ELSE content

\* The callback were it to strip every leading line feed.
RawStringCallbackTrimAll(slice) ==
    LET content == Slice(slice, 3, Len(slice) - 3)
    IN  IF Contains(content, TripleQuote) THEN None
        ELSE Some(TrimLineFeeds(content))

\* The RawString callback on the matched slice.
RawStringCallback(slice) ==
    LET content == Slice(slice, 3, Len(slice) - 3)
        lf == StripPrefix(content, <<Ch.lf>>)
        crlf == StripPrefix(content, <<Ch.cr, Ch.lf>>)
    IN  IF Contains(content, TripleQuote) THEN None
        ELSE IF lf # None THEN lf
        ELSE IF crlf # None THEN crlf
        ELSE Some(content)

\* The String callback on the matched slice.
StringCallback(slice) == parse_string(Slice(slice, 1, Len(slice) - 1))

-----------------------------------------------------------------------------
(* The generated lexer: longest match, ties broken by priority.            *)

KwNull == <<Ch.n, Ch.u, Ch.l, Ch.l>>
KwTrue == <<Ch.t, Ch.r, Ch.u, Ch.e>>
KwFalse == <<Ch.f, Ch.a, Ch.l, Ch.s, Ch.e>>

\* Every rule of the Token enum that matches at p: its end, its priority (the
\* one written in the attribute; a #[token] literal has twice its length)
\* and its name.
Candidates(s, p) ==
    LET C(rule, prio, end) ==
            IF end = NoMatch THEN {}
            ELSE {[rule |-> rule, prio |-> prio, end |-> end]}
        P(rule, c) == C(rule, 2, LiteralEnd(s, p, <<c>>))
    IN  C("Null", 8, LiteralEnd(s, p, KwNull))
        \cup C("True", 8, LiteralEnd(s, p, KwTrue))
        \cup C("False", 10, LiteralEnd(s, p, KwFalse))
        \cup C("Float", 3, FloatDotEnd(s, p))
        \cup C("Float", 3, FloatExpEnd(s, p))
        \cup C("Int", 2, IntEnd(s, p))
        \cup C("String", 2, StringEnd(s, p))
        \cup C("RawString", 2, RawStringEnd(s, p))
        \cup C("Key", 1, KeyIdentEnd(s, p))
        \cup C("Key", 1, KeyDigitsEnd(s, p))
        \cup P("LBracket", Ch.lbracket)
        \cup P("RBracket", Ch.rbracket)
        \cup P("LBrace", Ch.lbrace)
        \cup P("RBrace", Ch.rbrace)
        \cup P("Colon", Ch.colon)
        \cup P("Comma", Ch.comma)
        \cup P("Newline", Ch.lf)
        \cup C("Skip", 2, SkipEnd(s, p))
        \cup C("Comment", 2, CommentEnd(s, p))

\* The rule the lexer takes among the candidates.
Winner(cands) ==
    CHOOSE c \in cands :
        \A d \in cands :
            c.end > d.end \/ (c.end = d.end /\ c.prio >= d.prio)

Tok(k, v) == [k |-> k, v |-> v]

\* Some(Token::K(x)) for Some(x), None for None.
OptionToken(k, opt) == IF opt = None THEN None ELSE Some(Tok(k, opt[1]))

\* The callback of the rule on the matched slice: Some(token) or None.
Callback(rule, slice) ==
    CASE rule = "Int" -> OptionToken("Int", ParseI64(slice))
      [] rule = "Float" -> Some(Tok("Float", slice))
      [] rule = "String" -> OptionToken("String", StringCallback(slice))
      [] rule = "RawString" ->
            OptionToken("RawString", RawStringCallback(slice))
      [] rule = "Key" -> Some(Tok("Key", slice))
      [] OTHER -> Some(Tok(rule, <<>>))

\* What the iterator yields for the rule matched on [p, end): the token with
\* its span, or an error when the callback gives None.
Yield(p, end, cb) ==
    IF cb = None THEN [kind |-> "err", at |-> p]
    ELSE [kind |-> "tok", at |-> p, end |-> end, tok |-> cb[1]]

RECURSIVE NextToken(_, _)
RECURSIVE TakeRule(_, _, _)

\* The lexer with rule w matched at p: a skipped rule restarts the match
\* after it.
TakeRule(s, p, w) ==
    IF w.rule \in {"Skip", "Comment"} THEN NextToken(s, w.end)
    ELSE Yield(p, w.end, Callback(w.rule, Slice(s, p, w.end)))

\* The lexer at p given the rules that match there.
MatchRules(s, p, cands) ==
    IF cands = {} THEN [kind |-> "err", at |-> p]
    ELSE TakeRule(s, p, Winner(cands))

\* One call of the lexer's iterator at offset p: "end" at the end of the
\* input, "tok" with the token and its span, or "err" where no rule matches
\* or the callback gives None.
NextToken(s, p) ==
    IF p >= Len(s) THEN [kind |-> "end", at |-> p]
    ELSE MatchRules(s, p, Candidates(s, p))

-----------------------------------------------------------------------------
(* MamlValue                                                               *)

VNull == [t |-> "Null", v |-> <<>>]
VBool(b) == [t |-> "Bool", v |-> b]
VInt(i) == [t |-> "Int", v |-> i]
VFloat(f) == [t |-> "Float", v |-> f]
VString(s) == [t |-> "String", v |-> s]
\* Array(Vec<MamlValue>): the elements in order.
VArray(items) == [t |-> "Array", v |-> items]
\* Object(HashMap<String, MamlValue>): a function from its keys.
VObject(map) == [t |-> "Object", v |-> map]

\* HashMap::new()
EmptyMap == <<>>

\* An insert that keeps the entry of key when there is one.
MapInsertKeepFirst(map, key, value) ==
    [k \in DOMAIN map \cup {key} |->
        IF k \in DOMAIN map THEN map[k] ELSE value]

\* HashMap::insert: the entry of key is replaced when there is one.
MapInsert(map, key, value) ==
    [k \in DOMAIN map \cup {key} |-> IF k = key THEN value ELSE map[k]]

-----------------------------------------------------------------------------
(* The parser combinators.  A parser runs from a state [pos, alt, errs]:   *)
(* pos is the index of the next token, alt the index of the furthest token *)
(* a parser failed on so far (-1: none), errs the errors emitted by        *)
(* recoveries.  It answers [ok, pos, alt, errs, val].  A rewind restores   *)
(* pos and errs but keeps alt.                                             *)

NoAlt == 0 - 1

PState(p, alt, es) == [pos |-> p, alt |-> alt, errs |-> es]

POk(p, alt, es, value) ==
    [ok |-> TRUE, pos |-> p, alt |-> alt, errs |-> es, val |-> value]

\* A failure found at token index at, from state st (rewound).
PFail(st, at) ==
    [ok |-> FALSE, pos |-> st.pos, alt |-> Max(st.alt, at), errs |-> st.errs,
     val |-> <<>>]

StateOf(r) == PState(r.pos, r.alt, r.errs)

\* The kind of the token at index p; "EOF" past the last one.
KindAt(toks, p) == IF p < Len(toks) THEN toks[p + 1].k ELSE "EOF"

\* The span of the error on the token at index p: the input is the slice
\* &[Token], so a span counts tokens.
ErrSpan(toks, p) == <<p, Min(p + 1, Len(toks))>>

\* just(Token::K)
Just(toks, st, k) ==
    IF KindAt(toks, st.pos) = k
    THEN POk(st.pos + 1, st.alt, st.errs, <<>>)
    ELSE PFail(st, st.pos)

RECURSIVE NewlinesRepeated(_, _)
\* just(Token::Newline).repeated(): the state after the newlines; the
\* attempt that ends the run fails on the token there.
NewlinesRepeated(toks, st) ==
    IF KindAt(toks, st.pos) = "Newline"
    THEN NewlinesRepeated(toks, PState(st.pos + 1, st.alt, st.errs))
    ELSE PState(st.pos, Max(st.alt, st.pos), st.errs)

\* choice((just(Token::Comma).ignored(), just(Token::Newline).ignored()))
Separator(toks, st) ==
    IF KindAt(toks, st.pos) = "Comma"
    THEN POk(st.pos + 1, st.alt, st.errs, <<>>)
    ELSE Just(toks, PState(st.pos, Max(st.alt, st.pos), st.errs), "Newline")

RECURSIVE SeparatorRun(_, _, _)
\* The run of separators from st, n of them read so far.
SeparatorRun(toks, st, n) ==
    IF KindAt(toks, st.pos) \in {"Comma", "Newline"}
    THEN SeparatorRun(toks, StateOf(Separator(toks, st)), n + 1)
    ELSE [Separator(toks, st) EXCEPT !.ok = n >= 1]

\* separator.repeated(): no separator at all is accepted too.
SeparatorRepeatedAtLeast0(toks, st) ==
    [SeparatorRun(toks, st, 0) EXCEPT !.ok = TRUE]

\* separator alone: one comma or one line feed, and no more.
SeparatorOnce(toks, st) == Separator(toks, st)

\* separator.repeated().at_least(1)
SeparatorRepeated(toks, st) == SeparatorRun(toks, st, 0)

RECURSIVE BlockEnd(_, _)
RECURSIVE BlockAfter(_, _, _, _)
\* The body of nested_delimiters: any run of tokens that are no delimiters
\* and of properly nested [..] and {..} blocks.  The index where it stops.
BlockEnd(toks, p) ==
    IF KindAt(toks, p) = "LBracket"
    THEN BlockAfter(toks, p, BlockEnd(toks, p + 1), "RBracket")
    ELSE IF KindAt(toks, p) = "LBrace"
    THEN BlockAfter(toks, p, BlockEnd(toks, p + 1), "RBrace")
    ELSE IF KindAt(toks, p) \in {"RBracket", "RBrace", "EOF"} THEN p
    ELSE BlockEnd(toks, p + 1)

\* A nested block opened at p whose body stops at inner: it is skipped when
\* close follows, and the run stops at p when it does not.
BlockAfter(toks, p, inner, close) ==
    IF KindAt(toks, inner) = close THEN BlockEnd(toks, inner + 1) ELSE p

\* The index after close, when close is at b.
Closed(toks, b, close) == IF KindAt(toks, b) = close THEN b + 1 ELSE NoMatch

\* nested_delimiters(open, close, [([, ]), ({, })], fallback) at index p: the
\* index after the delimiter closing the one at p, or -1.
NestedDelimiters(toks, p, open, close) ==
    IF KindAt(toks, p) = open
    THEN Closed(toks, BlockEnd(toks, p + 1), close)
    ELSE NoMatch

\* A recovery that keeps the errors emitted inside the region.
ViaParserKeepErrors(toks, st, primary, e, fallback) ==
    IF e = NoMatch
    THEN [primary EXCEPT !.pos = st.pos, !.errs = st.errs]
    ELSE POk(e, e - 1,
             Append(primary.errs, [span |-> ErrSpan(toks, primary.alt)]),
             fallback)

\* via_parser: the recovery parser matched up to e (or did not: -1).  When
\* it did, the pending error is emitted and fallback stands for the region.
ViaParser(toks, st, primary, e, fallback) ==
    IF e = NoMatch
    THEN [primary EXCEPT !.pos = st.pos, !.errs = st.errs]
    ELSE POk(e, e - 1,
             Append(st.errs, [span |-> ErrSpan(toks, primary.alt)]),
             fallback)

\* recover_with(via_parser(nested_delimiters(..))) on the result primary of
\* the parser run from st: on a failure the input is rewound and the
\* recovery parser runs.
RecoverWith(toks, st, primary, open, close, fallback) ==
    IF primary.ok THEN primary
    ELSE ViaParser(toks, st, primary,
                   NestedDelimiters(toks, st.pos, open, close), fallback)

RECURSIVE Value(_, _)
RECURSIVE ArrayItems(_, _, _)
RECURSIVE Members(_, _, _, _)

\* The item after the separators: collected when it parses; when it does
\* not, the list ends after the separators (allow_trailing).
ArrayItem(toks, before, items, item) ==
    IF item.ok
    THEN ArrayItems(toks, StateOf(item), Append(items, item.val))
    ELSE POk(before.pos, item.alt, before.errs, items)

\* The separators before the next item: without them the list ends.
ArraySeparated(toks, st, items, sep) ==
    IF sep.ok
    THEN ArrayItem(toks, sep, items, Value(toks, StateOf(sep)))
    ELSE POk(st.pos, sep.alt, st.errs, items)

\* value.separated_by(separator.repeated().at_least(1)).allow_trailing()
\* .collect(), with items collected so far.
ArrayItems(toks, st, items) ==
    IF items = <<>>
    THEN ArrayItem(toks, st, items, Value(toks, st))
    ELSE ArraySeparated(toks, st, items, SeparatorRepeated(toks, st))

\* .map(MamlValue::Array) once ] is read.
ArrayClosed(items, close) ==
    IF close.ok
    THEN POk(close.pos, close.alt, close.errs, VArray(items.val))
    ELSE close

\* The newlines after the items and the closing ].
ArrayClose(toks, items) ==
    ArrayClosed(items,
                Just(toks, NewlinesRepeated(toks, StateOf(items)), "RBracket"))

\* The newlines after [ and the items.
ArrayOpened(toks, open) ==
    IF open.ok
    THEN ArrayClose(toks,
                    ArrayItems(toks, NewlinesRepeated(toks, StateOf(open)),
                               <<>>))
    ELSE open

\* The array parser before its recovery: the items, padded by newlines,
\* delimited by [ and ], mapped to MamlValue::Array.
ArrayPrimary(toks, st) == ArrayOpened(toks, Just(toks, st, "LBracket"))

Array(toks, st) ==
    RecoverWith(toks, st, ArrayPrimary(toks, st), "LBracket", "RBracket",
                VArray(<<>>))

\* choice((select! { Token::String(s) => s }, select! { Token::Key(s) => s }))
Key(toks, st) ==
    IF KindAt(toks, st.pos) = "String"
    THEN POk(st.pos + 1, st.alt, st.errs, toks[st.pos + 1].v)
    ELSE IF KindAt(toks, st.pos) = "Key"
    THEN POk(st.pos + 1, Max(st.alt, st.pos), st.errs, toks[st.pos + 1].v)
    ELSE PFail(st, st.pos)

\* .then(value): the pair of the key and the value.
MemberValue(key, value) ==
    IF value.ok
    THEN POk(value.pos, value.alt, value.errs, <<key.val, value.val>>)
    ELSE value

\* .then_ignore(just(Token::Colon))
MemberColon(toks, key, colon) ==
    IF colon.ok THEN MemberValue(key, Value(toks, StateOf(colon))) ELSE colon

\* key.then_ignore(just(Token::Colon)).then(value)
MemberKey(toks, key) ==
    IF key.ok THEN MemberColon(toks, key, Just(toks, StateOf(key), "Colon"))
    ELSE key

Member(toks, st) == MemberKey(toks, Key(toks, st))

\* The member after the separators: inserted into the map when it parses.
MembersItem(toks, before, n, map, item) ==
    IF item.ok
    THEN Members(toks, StateOf(item), n + 1,
                 MapInsert(map, item.val[1], item.val[2]))
    ELSE POk(before.pos, item.alt, before.errs, map)

MembersSeparated(toks, st, n, map, sep) ==
    IF sep.ok
    THEN MembersItem(toks, sep, n, map, Member(toks, StateOf(sep)))
    ELSE POk(st.pos, sep.alt, st.errs, map)

\* member.separated_by(separator.repeated().at_least(1)).allow_trailing()
\* .collect() into a HashMap, with n members collected so far into map.
Members(toks, st, n, map) ==
    IF n = 0
    THEN MembersItem(toks, st, n, map, Member(toks, st))
    ELSE MembersSeparated(toks, st, n, map, SeparatorRepeated(toks, st))

\* .map(MamlValue::Object) once } is read.
ObjectClosed(members, close) ==
    IF close.ok
    THEN POk(close.pos, close.alt, close.errs, VObject(members.val))
    ELSE close

ObjectClose(toks, members) ==
    ObjectClosed(members,
                 Just(toks, NewlinesRepeated(toks, StateOf(members)),
                      "RBrace"))

ObjectOpened(toks, open) ==
    IF open.ok
    THEN ObjectClose(toks,
                     Members(toks, NewlinesRepeated(toks, StateOf(open)), 0,
                             EmptyMap))
    ELSE open

\* The object parser before its recovery.
ObjectPrimary(toks, st) == ObjectOpened(toks, Just(toks, st, "LBrace"))

Object(toks, st) ==
    RecoverWith(toks, st, ObjectPrimary(toks, st), "LBrace", "RBrace",
                VObject(EmptyMap))

\* The value of a token that is a value on its own.
ScalarValue(tok) ==
    CASE tok.k = "Null" -> VNull
      [] tok.k = "True" -> VBool(TRUE)
      [] tok.k = "False" -> VBool(FALSE)
      [] tok.k = "Float" -> VFloat(tok.v)
      [] tok.k = "Int" -> VInt(tok.v)
      [] tok.k = "RawString" -> VString(tok.v)
      [] tok.k = "String" -> VString(tok.v)

\* The last alternatives of the choice: array, then object.
ArrayOrObject(toks, st, array) ==
    IF array.ok THEN array
    ELSE Object(toks, PState(st.pos, array.alt, st.errs))

\* choice((null, true, false, number, string_val, array, object)): the first
\* alternative that parses; each one that fails is rewound and leaves its
\* failure on the token at st.pos.
Value(toks, st) ==
    IF KindAt(toks, st.pos) = "Null"
    THEN POk(st.pos + 1, st.alt, st.errs, VNull)
    ELSE IF KindAt(toks, st.pos)
              \in {"True", "False", "Float", "Int", "RawString", "String"}
    THEN POk(st.pos + 1, Max(st.alt, st.pos), st.errs,
             ScalarValue(toks[st.pos + 1]))
    ELSE ArrayOrObject(toks, st,
                       Array(toks, PState(st.pos, Max(st.alt, st.pos), st.errs)))

\* The result of parse(): the parse failed with r, the errors emitted so far
\* being es; the pending error is added to them.
ParseFailed(toks, r, es) ==
    [val |-> None, errs |-> Append(es, [span |-> ErrSpan(toks, r.alt)])]

\* parse() requires the end of the input after the parser.
ParseEnd(toks, value, atEnd) ==
    IF atEnd.ok THEN [val |-> Some(value.val), errs |-> atEnd.errs]
    ELSE ParseFailed(toks, atEnd, value.errs)

ParseValue(toks, value) ==
    IF value.ok
    THEN ParseEnd(toks, value,
                  Just(toks, NewlinesRepeated(toks, StateOf(value)), "EOF"))
    ELSE ParseFailed(toks, value, <<>>)

\* parser().padded_by(just(Token::Newline).repeated()).parse(&tokens)
\* .into_output_errors(): the output, an Option, and the errors.
Parse(toks) ==
    ParseValue(toks,
               Value(toks, NewlinesRepeated(toks, PState(0, NoAlt, <<>>))))

-----------------------------------------------------------------------------
(* The input texts                                                         *)

RECURSIVE Flatten(_)
Flatten(pieces) ==
    IF pieces = <<>> THEN <<>> ELSE Head(pieces) \o Flatten(Tail(pieces))

\* Every text made of at most n pieces of P, one after the other.
Texts(P, n) ==
    { Flatten(ps) : ps \in UNION { [1..k -> P] : k \in 0..n } }

\* pre, then a text of T, then post.
Wrap(pre, T, post) == { pre \o t \o post : t \in T }

\* Array bodies: [ body ], the body made of separators, blanks and digits.
MaxArrayBody == 4
ArrayBodyPieces ==
    { <<Ch.comma>>, <<Ch.lf>>, <<Ch.space>>, <<Ch.one>>, <<Ch.two>> }
ArrayInputs ==
    Wrap(<<Ch.lbracket>>, Texts(ArrayBodyPieces, MaxArrayBody), <<Ch.rbracket>>)

\* Objects of members that each end with a comma: { a:1,a:2, }.
MaxMembers == 3
MemberPieces ==
    { <<Ch.a, Ch.colon, Ch.one, Ch.comma>>,
      <<Ch.a, Ch.colon, Ch.two, Ch.comma>>,
      <<Ch.b, Ch.colon, Ch.one, Ch.comma>>,
      <<Ch.quote, Ch.a, Ch.quote, Ch.colon, Ch.three, Ch.comma>> }
MemberInputs ==
    Wrap(<<Ch.lbrace>>, Texts(MemberPieces, MaxMembers), <<Ch.rbrace>>)

\* One member whose key is any text over a few characters: { key:1 }.
MaxKeyLen == 3
KeyChars ==
    { <<Ch.a>>, <<Ch.one>>, <<Ch.zero>>, <<Ch.minus>>, <<Ch.underscore>>,
      <<Ch.quote>> }
KeyInputs ==
    Wrap(<<Ch.lbrace>>, Texts(KeyChars, MaxKeyLen) \ {<<>>},
         <<Ch.colon, Ch.one, Ch.rbrace>>)

\* An array of sibling elements, one per line: the element, then a line
\* feed.  Some elements are malformed regions whose delimiters balance.
MaxSiblings == 3
WellFormedElements ==
    { <<Ch.one>>,
      <<Ch.lbracket, Ch.one, Ch.comma, Ch.two, Ch.rbracket>>,
      <<Ch.lbrace, Ch.a, Ch.colon, Ch.one, Ch.rbrace>> }
MalformedArrays ==
    { <<Ch.lbracket, Ch.one, Ch.space, Ch.two, Ch.rbracket>>,
      <<Ch.lbracket, Ch.lbracket, Ch.one, Ch.space, Ch.two, Ch.rbracket,
        Ch.space, Ch.one, Ch.space, Ch.two, Ch.rbracket>>,
      <<Ch.lbracket, Ch.colon, Ch.lbrace, Ch.rbrace, Ch.colon, Ch.rbracket>> }
MalformedObjects ==
    { <<Ch.lbrace, Ch.a, Ch.space, Ch.one, Ch.rbrace>>,
      <<Ch.lbrace, Ch.a, Ch.colon, Ch.rbrace>> }
SiblingPieces ==
    { e \o <<Ch.lf>> :
        e \in WellFormedElements \cup MalformedArrays \cup MalformedObjects }
SiblingInputs ==
    Wrap(<<Ch.lbracket>>, Texts(SiblingPieces, MaxSiblings), <<Ch.rbracket>>)

\* Quoted strings, closed or not: " body " and " body.
MaxStringBody == 2
StringBodyPieces ==
    { <<Ch.a>>, <<Ch.tab>>, <<Ch.lf>>, <<Ch.backslash>>,
      <<Ch.backslash, Ch.n>>,
      <<Ch.backslash, Ch.u, Ch.lbrace, Ch.four, Ch.one, Ch.rbrace>>,
      <<Ch.backslash, Ch.u, Ch.lbrace, Ch.d, Ch.nine, Ch.zero, Ch.zero,
        Ch.rbrace>> }
StringInputs ==
    Wrap(<<Ch.quote>>, Texts(StringBodyPieces, MaxStringBody), <<Ch.quote>>)
    \cup Wrap(<<Ch.quote>>, Texts(StringBodyPieces, MaxStringBody), <<>>)

\* Raw strings: """ body """.
MaxRawBody == 4
RawBodyPieces ==
    { <<Ch.lf>>, <<Ch.cr>>, <<Ch.a>>, <<Ch.quote>>, <<Ch.backslash, Ch.n>> }
RawInputs == Wrap(TripleQuote, Texts(RawBodyPieces, MaxRawBody), TripleQuote)

\* Integer literals about the ends of the i64 range, in several places.
MaxNines == 20
Nines(k) == [i \in 1..k |-> Ch.nine]
Digits(ds) == [i \in 1..Len(ds) |-> Ch.zero + ds[i]]
InRangeLiterals ==
    { Nines(k) : k \in 1..Min(MaxNines, 18) }
    \cup { <<Ch.minus>> \o Nines(k) : k \in 1..Min(MaxNines, 18) }
    \cup { Digits(I64MaxDigits), <<Ch.minus>> \o Digits(I64MinDigits) }
OverflowLiterals ==
    { Nines(k) : k \in 19..MaxNines }
    \cup { <<Ch.minus>> \o Nines(k) : k \in 19..MaxNines }
    \cup { Digits(I64MinDigits), <<Ch.minus>> \o Digits(I64MinDigits) \o <<Ch.zero>> }
\* Where a value may stand, and the key of a member.
ValuePlaces ==
    { [pre |-> <<>>, post |-> <<>>],
      [pre |-> <<Ch.lbracket>>, post |-> <<Ch.rbracket>>],
      [pre |-> <<Ch.lbracket, Ch.one, Ch.comma, Ch.space>>,
       post |-> <<Ch.lf, Ch.rbracket>>],
      [pre |-> <<Ch.lbrace, Ch.a, Ch.colon>>, post |-> <<Ch.rbrace>>] }
KeyPlaces ==
    { [pre |-> <<Ch.lbrace>>, post |-> <<Ch.colon, Ch.one, Ch.rbrace>>] }
Placed(places, literals) ==
    { pl.pre \o lit \o pl.post : pl \in places, lit \in literals }
IntInputs ==
    Placed(ValuePlaces \cup KeyPlaces, InRangeLiterals \cup OverflowLiterals)

\* Any text over the delimiters, a comma and a digit.
MaxDelimiters == 3
DelimiterPieces ==
    { <<Ch.lbracket>>, <<Ch.rbracket>>, <<Ch.lbrace>>, <<Ch.rbrace>>,
      <<Ch.comma>>, <<Ch.one>> }
DelimiterInputs == Texts(DelimiterPieces, MaxDelimiters)

\* The inputs of the tests of src/lib.rs and of the format's description.
ArrayExample ==
    <<Ch.lbracket, Ch.one, Ch.comma, Ch.space, Ch.two, Ch.comma, Ch.space,
      Ch.three, Ch.rbracket>>
EmptySlotExample ==
    <<Ch.lbracket, Ch.one, Ch.comma, Ch.space, Ch.comma, Ch.space, Ch.two,
      Ch.rbracket>>
WideElementExample ==
    <<Ch.lbracket, Ch.one, Ch.zero, Ch.space, Ch.two, Ch.rbracket>>
DuplicateKeyExample ==
    <<Ch.lbrace, Ch.space, Ch.a, Ch.colon, Ch.space, Ch.one, Ch.comma,
      Ch.space, Ch.a, Ch.colon, Ch.space, Ch.two, Ch.space, Ch.rbrace>>
AdjacentMembersExample ==
    <<Ch.lbrace, Ch.a, Ch.colon, Ch.one, Ch.space, Ch.b, Ch.colon, Ch.one,
      Ch.rbrace>>
NameKeyExample ==
    <<Ch.lbrace, Ch.space, Ch.n, Ch.a, Ch.m, Ch.e, Ch.colon, Ch.space,
      Ch.one, Ch.space, Ch.rbrace>>
DigitKeyExample ==
    <<Ch.lbrace, Ch.space, Ch.four, Ch.two, Ch.colon, Ch.space, Ch.one,
      Ch.space, Ch.rbrace>>
RawStringExample ==
    TripleQuote
    \o <<Ch.lf, Ch.h, Ch.e, Ch.l, Ch.l, Ch.o, Ch.lf, Ch.w, Ch.o, Ch.r, Ch.l,
         Ch.d, Ch.lf>>
    \o TripleQuote
TabStringExample == <<Ch.quote, Ch.a, Ch.tab, Ch.b, Ch.quote>>
ExampleInputs ==
    { <<Ch.n, Ch.u, Ch.l, Ch.l>>,
      <<Ch.four, Ch.two>>,
      <<Ch.three, Ch.dot, Ch.one, Ch.four>>,
      <<Ch.hash, Ch.space, Ch.a, Ch.lf, Ch.t, Ch.r, Ch.u, Ch.e, Ch.space,
        Ch.hash, Ch.a>>,
      ArrayExample, EmptySlotExample, WideElementExample, DuplicateKeyExample,
      AdjacentMembersExample, NameKeyExample, DigitKeyExample,
      RawStringExample, TabStringExample }

\* Arrays in arrays and objects in objects, k deep: [[..]], [[..1..]] and
\* {a:{a:..1..}}.
MaxDepth == 8
Repeat(piece, k) == Flatten([i \in 1..k |-> piece])
NestedInputs ==
    { Repeat(<<Ch.lbracket>>, k) \o Repeat(<<Ch.rbracket>>, k) :
        k \in 1..MaxDepth }
    \cup { Repeat(<<Ch.lbracket>>, k) \o <<Ch.one>>
             \o Repeat(<<Ch.rbracket>>, k) : k \in 1..MaxDepth }
    \cup { Repeat(<<Ch.lbrace, Ch.a, Ch.colon>>, k) \o <<Ch.one>>
             \o Repeat(<<Ch.rbrace>>, k) : k \in 1..MaxDepth }

Inputs ==
    ArrayInputs \cup MemberInputs \cup KeyInputs \cup SiblingInputs
    \cup StringInputs \cup RawInputs \cup IntInputs \cup DelimiterInputs
    \cup ExampleInputs \cup NestedInputs

EntryPoints == {"from_str", "parse_with_report"}

-----------------------------------------------------------------------------
(* from_str and parse_with_report                                          *)

NoResult == [ok |-> FALSE, val |-> None, report |-> <<>>, returned |-> FALSE]

Init ==
    /\ entry \in EntryPoints
    /\ input \in Inputs
    /\ pc = "lex"
    /\ pos = 0
    /\ tokens = <<>>
    /\ spans = <<>>
    /\ val = None
    /\ errs = <<>>
    /\ result = NoResult

\* Ok(token) => tokens.push(token)
Pushed(t) ==
    /\ t.kind = "tok"
    /\ tokens' = Append(tokens, t.tok)
    /\ spans' = Append(spans, <<t.at, t.end>>)
    /\ pos' = t.end

LexToken ==
    /\ pc = "lex"
    /\ Pushed(NextToken(input, pos))
    /\ UNCHANGED <<entry, input, pc, val, errs, result>>

\* Err(_) => the entry point returns at once: from_str with the message
\* "Lexer error at <span>", parse_with_report with None after printing it.
Refused(t) ==
    /\ t.kind = "err"
    /\ result' = [ok |-> FALSE, val |-> None,
                  report |-> <<[kind |-> "lexer", start |-> t.at]>>,
                  returned |-> TRUE]

LexError ==
    /\ pc = "lex"
    /\ Refused(NextToken(input, pos))
    /\ pc' = "done"
    /\ UNCHANGED <<entry, input, pos, tokens, spans, val, errs>>

\* The token iterator is exhausted.
Exhausted(t) ==
    /\ t.kind = "end"
    /\ pos' = t.at

LexEnd ==
    /\ pc = "lex"
    /\ Exhausted(NextToken(input, pos))
    /\ pc' = "parse"
    /\ UNCHANGED <<entry, input, tokens, spans, val, errs, result>>

\* let (val, errs) = parser()...parse(&tokens).into_output_errors();
Parsed(r) ==
    /\ val' = r.val
    /\ errs' = r.errs

RunParser ==
    /\ pc = "parse"
    /\ Parsed(Parse(tokens))
    /\ pc' = "report"
    /\ UNCHANGED <<entry, input, pos, tokens, spans, result>>

\* One ariadne report per error, each built on e.span().into_range().
Reports(es) == [i \in 1..Len(es) |-> [kind |-> "parser", span |-> es[i].span]]

\* The value is returned whenever there is one, errors or not.
ReturnValueFirst ==
    /\ pc = "report"
    /\ result' = [ok |-> val # None, val |-> val, report |-> Reports(errs),
                  returned |-> TRUE]
    /\ pc' = "done"
    /\ UNCHANGED <<entry, input, pos, tokens, spans, val, errs>>

\* The end of from_str: if !errs.is_empty() { .. return Err(rendered) }
\* val.ok_or_else(..).
FromStrReturn(v, es) ==
    IF ~(es = <<>>)
    THEN [ok |-> FALSE, val |-> None, report |-> Reports(es)]
    ELSE [ok |-> v # None, val |-> v, report |-> <<>>]

\* An end of parse_with_report that hands back the recovered value after
\* printing the reports.
ParseWithReportReturnRecovered(v, es) ==
    [ok |-> v # None, val |-> v, report |-> Reports(es)]

\* The end of parse_with_report: if errs.is_empty() { return val; }
\* for e in errs { report.eprint(..) } None.
ParseWithReportReturn(v, es) ==
    IF es = <<>>
    THEN [ok |-> v # None, val |-> v, report |-> <<>>]
    ELSE [ok |-> FALSE, val |-> None, report |-> Reports(es)]

\* What the entry point that runs returns.
Returned(out) ==
    [ok |-> out.ok, val |-> out.val, report |-> out.report, returned |-> TRUE]

\* The end of both entry points: with errors, from_str returns Err(the
\* rendered reports) and parse_with_report prints them and returns None;
\* without, from_str returns val.ok_or_else(..) and parse_with_report val.
Return ==
    /\ pc = "report"
    /\ result' = IF entry = "from_str"
                 THEN Returned(FromStrReturn(val, errs))
                 ELSE Returned(ParseWithReportReturn(val, errs))
    /\ pc' = "done"
    /\ UNCHANGED <<entry, input, pos, tokens, spans, val, errs>>

RECURSIVE Lexed(_, _, _)
\* The loop over lexer.spanned() as a whole: the tokens pushed, or the
\* offset of the first error.
LexLoop(s, t, toks) ==
    IF t.kind = "end" THEN [ok |-> TRUE, toks |-> toks, at |-> t.at]
    ELSE IF t.kind = "err" THEN [ok |-> FALSE, toks |-> toks, at |-> t.at]
    ELSE Lexed(s, t.end, Append(toks, t.tok))
Lexed(s, p, toks) == LexLoop(s, NextToken(s, p), toks)

LexerError(at) ==
    [ok |-> FALSE, val |-> None,
     report |-> <<[kind |-> "lexer", start |-> at]>>]

\* from_str(input) as a function of its argument.
FromStrParsed(r) == FromStrReturn(r.val, r.errs)
FromStrLexed(l) ==
    IF l.ok THEN FromStrParsed(Parse(l.toks)) ELSE LexerError(l.at)
from_str(s) == FromStrLexed(Lexed(s, 0, <<>>))

\* parse_with_report(filename, input) as a function of its arguments.  The
\* file name only labels the printed reports.
ParseWithReportParsed(filename, r) == ParseWithReportReturn(r.val, r.errs)
ParseWithReportLexed(filename, l) ==
    IF l.ok THEN ParseWithReportParsed(filename, Parse(l.toks))
    ELSE LexerError(l.at)
parse_with_report(filename, s) ==
    ParseWithReportLexed(filename, Lexed(s, 0, <<>>))

Next == LexToken \/ LexError \/ LexEnd \/ RunParser \/ Return

Spec == Init /\ [][Next]_vars

-----------------------------------------------------------------------------
(* What the format's description says of a text, read off the text itself  *)
(* without the lexer or the parser.                                        *)

Done == pc = "done"

\* The lexer reached the end of the input: no token failed to lex.
LexedToEnd == pos = Len(input)

IsNonZeroDigit(c) == c \in 49..57
IsSeparatorChar(c) == c \in {Ch.comma, Ch.lf}

\* [ body ] whose body holds only commas, line feeds, spaces and the digits
\* 1..9: every run of digits is an integer element.  No run has more than
\* 18 digits, so every element is within the i64 range.
IsArrayText(t) ==
    /\ Len(t) >= 2
    /\ t[1] = Ch.lbracket
    /\ t[Len(t)] = Ch.rbracket
    /\ \A i \in 2..(Len(t) - 1) :
          IsSeparatorChar(t[i]) \/ t[i] = Ch.space \/ IsNonZeroDigit(t[i])
    /\ \A i \in 2..(Len(t) - 19) : \E k \in i..(i + 18) : ~IsDigit(t[k])

\* The places of the body where an element starts and where one ends.
ItemStarts(t) ==
    { i \in 2..(Len(t) - 1) : IsDigit(t[i]) /\ ~IsDigit(t[i - 1]) }
ItemEnds(t) ==
    { i \in 2..(Len(t) - 1) : IsDigit(t[i]) /\ ~IsDigit(t[i + 1]) }

\* The end of the element before place i.
PreviousEnd(t, i) ==
    CHOOSE j \in ItemEnds(t) :
        j < i /\ \A k \in ItemEnds(t) : k < i => k <= j

\* Some element follows another with no comma and no line feed between.
MissingSeparator(t) ==
    \E i \in ItemStarts(t) :
        /\ \E j \in ItemEnds(t) : j < i
        /\ \A k \in (PreviousEnd(t, i) + 1)..(i - 1) : ~IsSeparatorChar(t[k])

\* A comma stands before the first element.
LeadingComma(t) ==
    \E i \in 2..(Len(t) - 1) :
        t[i] = Ch.comma /\ \A j \in ItemStarts(t) : j > i

\* Two commas with no element between them stand between two elements.
HasEmptySlot(t) ==
    \E i, j \in 2..(Len(t) - 1) :
        /\ i < j
        /\ t[i] = Ch.comma
        /\ t[j] = Ch.comma
        /\ \A k \in i..j : ~IsDigit(t[k])
        /\ \E k \in ItemEnds(t) : k < i
        /\ \E k \in ItemStarts(t) : k > j

\* A separator stands between the last element and the closing bracket.
HasTrailingSeparator(t) ==
    \E i \in 2..(Len(t) - 1) :
        /\ IsSeparatorChar(t[i])
        /\ ItemEnds(t) # {}
        /\ \A j \in ItemEnds(t) : j < i

\* The integer written with the digits t[i..j].
IntOfDigits(t, i, j) ==
    VInt([neg |-> FALSE, mag |-> [k \in 1..(j - i + 1) |-> t[i + k - 1] - 48]])

RECURSIVE ItemsFrom(_, _)
\* The elements of the body from place i on, in the order of the text.
ItemsFrom(t, i) ==
    IF \A j \in ItemStarts(t) : j < i THEN <<>>
    ELSE LET a == CHOOSE j \in ItemStarts(t) :
                      j >= i /\ \A k \in ItemStarts(t) : k >= i => k >= j
             b == CHOOSE j \in ItemEnds(t) :
                      j >= a /\ \A k \in ItemEnds(t) : k >= a => k >= j
         IN  <<IntOfDigits(t, a, b)>> \o ItemsFrom(t, b + 1)

ExpectedArray(t) == VArray(ItemsFrom(t, 2))

-----------------------------------------------------------------------------
(* C1: from_str returns Ok only when no token failed to lex and the parser *)
(* recorded no error; when a token fails to lex the parser is not run, and *)
(* when the parser records an error, also one for a region it recovered    *)
(* from with an empty array or object, the result is Err and carries no    *)
(* value.                                                                  *)
OkOnlyWithoutErrors ==
    (Done /\ entry = "from_str") =>
        /\ result.ok => (LexedToEnd /\ errs = <<>> /\ result.val = val
                         /\ val # None)
        /\ ~LexedToEnd => (~result.ok /\ result.val = None /\ val = None
                           /\ errs = <<>>)
        /\ errs # <<>> => (~result.ok /\ result.val = None)

\* from_str returned Err although the parser had put an empty array or object
\* in the place of a region and so had a value.
ErrAfterRecovery ==
    /\ Done
    /\ entry = "from_str"
    /\ LexedToEnd
    /\ val # None
    /\ errs # <<>>
    /\ ~result.ok

-----------------------------------------------------------------------------
(* C2: in an array two adjacent elements need a comma or a line feed       *)
(* between them ([1 2] is an error, and so are two adjacent members of an  *)
(* object); separators after the last element are accepted; the array      *)
(* holds the elements in the order of the text.                            *)
ArraySeparators ==
    /\ (Done /\ IsArrayText(input)) =>
          /\ MissingSeparator(input) => (~result.ok /\ errs # <<>>)
          /\ (~MissingSeparator(input) /\ ~LeadingComma(input)) =>
                (result.ok /\ result.val = Some(ExpectedArray(input)))
    /\ (Done /\ input = AdjacentMembersExample) => (~result.ok /\ errs # <<>>)

\* An array of two elements or more with a separator after the last one
\* was returned.
TrailingSeparatorTaken ==
    /\ Done
    /\ IsArrayText(input)
    /\ HasTrailingSeparator(input)
    /\ result.ok
    /\ Len(result.val[1].v) >= 2

-----------------------------------------------------------------------------
(* Keys and members, read off the text.                                    *)

One == VInt([neg |-> FALSE, mag |-> <<1>>])

\* The text of the key of { key:1 }.
KeyText(t) == SubSeq(t, 2, Len(t) - 3)

IsIdentKey(k) ==
    /\ k # <<>>
    /\ IsKeyStart(k[1])
    /\ \A i \in 2..Len(k) : IsKeyCont(k[i])
IsDigitsKey(k) == k # <<>> /\ \A i \in 1..Len(k) : IsDigit(k[i])
IsQuotedKey(k) ==
    /\ Len(k) >= 2
    /\ k[1] = Ch.quote
    /\ k[Len(k)] = Ch.quote
    /\ \A i \in 2..(Len(k) - 1) : k[i] \notin {Ch.quote, Ch.backslash}

\* The name a key text stands for: a quoted key without its quotes.
KeyName(k) == IF k[1] = Ch.quote THEN SubSeq(k, 2, Len(k) - 1) ELSE k

\* The places where the members of { m,m, } start, and the colon of each.
MemberStarts(t) ==
    { i \in 2..(Len(t) - 1) : t[i - 1] \in {Ch.lbrace, Ch.comma} }
ColonOf(t, i) ==
    CHOOSE j \in i..Len(t) :
        t[j] = Ch.colon /\ \A k \in i..(j - 1) : t[k] # Ch.colon
MemberName(t, i) == KeyName(SubSeq(t, i, ColonOf(t, i) - 1))
MemberDigit(t, i) == t[ColonOf(t, i) + 1] - Ch.zero
MemberNames(t) == { MemberName(t, i) : i \in MemberStarts(t) }

\* The last member of the text with this name.
LastMember(t, name) ==
    CHOOSE i \in MemberStarts(t) :
        /\ MemberName(t, i) = name
        /\ \A j \in MemberStarts(t) : MemberName(t, j) = name => j <= i

ExpectedObject(t) ==
    VObject([name \in MemberNames(t) |->
                VInt([neg |-> FALSE,
                      mag |-> <<MemberDigit(t, LastMember(t, name))>>])])

-----------------------------------------------------------------------------
(* C3: a quoted string, a bare identifier [A-Za-z_-][A-Za-z0-9_-]* and a   *)
(* bare run of digits [0-9]+ are each accepted as the key of a member:     *)
(* { key: 1 } parses without error to the object of the one member.        *)
KeyFormsAccepted ==
    /\ (/\ Done
        /\ input \in KeyInputs
        /\ \/ IsQuotedKey(KeyText(input))
           \/ IsIdentKey(KeyText(input))
           \/ IsDigitsKey(KeyText(input)))
       => /\ result.ok
          /\ DOMAIN result.val[1].v = {KeyName(KeyText(input))}
          /\ result.val[1].v[KeyName(KeyText(input))] = One
    /\ (Done /\ input \in {NameKeyExample, DigitKeyExample}) => result.ok

-----------------------------------------------------------------------------
(* C4: when members of one object have the same key text, the parse has no *)
(* error and the object has one entry for the key, with the value of the   *)
(* member that comes last in the text ({ a: 1, a: 2 } gives a -> 2).       *)
LastMemberWins ==
    /\ (Done /\ input \in MemberInputs) =>
          /\ errs = <<>>
          /\ result.ok
          /\ result.val = Some(ExpectedObject(input))
    /\ (Done /\ input = DuplicateKeyExample) =>
          /\ errs = <<>>
          /\ result.ok
          /\ DOMAIN result.val[1].v = {<<Ch.a>>}
          /\ result.val[1].v[<<Ch.a>>] = VInt([neg |-> FALSE, mag |-> <<2>>])

\* An object was returned with fewer entries than the text has members, the
\* entry of a holding the value of the last of three members with that key.
DuplicateReplaced ==
    /\ Done
    /\ input \in MemberInputs
    /\ Cardinality(MemberStarts(input)) = 3
    /\ MemberNames(input) = {<<Ch.a>>}
    /\ MemberDigit(input, 2) # MemberDigit(input, LastMember(input, <<Ch.a>>))
    /\ result.ok
    /\ result.val[1].v[<<Ch.a>>] =
          VInt([neg |-> FALSE,
                mag |-> <<MemberDigit(input, LastMember(input, <<Ch.a>>))>>])

-----------------------------------------------------------------------------
(* Sibling regions, read off the text: the elements of [ e LF e LF .. ].   *)

\* The places where the lines of the body start.
LineStarts(t) ==
    { i \in 2..(Len(t) - 1) : t[i - 1] = Ch.lf \/ i = 2 }
LineEnd(t, i) ==
    CHOOSE j \in i..Len(t) :
        t[j] = Ch.lf /\ \A k \in i..(j - 1) : t[k] # Ch.lf
Line(t, i) == SubSeq(t, i, LineEnd(t, i) - 1)

IsMalformed(e) == e \in MalformedArrays \cup MalformedObjects

\* What stands for an element: itself, or the empty array or object.
Two == VInt([neg |-> FALSE, mag |-> <<2>>])
ExpectedElement(e) ==
    IF e = <<Ch.one>> THEN One
    ELSE IF e \in MalformedArrays THEN VArray(<<>>)
    ELSE IF e \in MalformedObjects THEN VObject(EmptyMap)
    ELSE IF e[1] = Ch.lbracket THEN VArray(<<One, Two>>)
    ELSE VObject([k \in {<<Ch.a>>} |-> One])

RECURSIVE ElementsFrom(_, _)
ElementsFrom(t, i) ==
    IF i \notin LineStarts(t) THEN <<>>
    ELSE <<ExpectedElement(Line(t, i))>> \o ElementsFrom(t, LineEnd(t, i) + 1)

MalformedLines(t) == { i \in LineStarts(t) : IsMalformed(Line(t, i)) }

\* The i-th error is on a token of the line that starts at place l.
ErrorInLine(t, i, l) ==
    /\ errs[i].span[1] < Len(spans)
    /\ spans[errs[i].span[1] + 1][1] >= l - 1
    /\ spans[errs[i].span[1] + 1][2] <= LineEnd(t, l) - 1

-----------------------------------------------------------------------------
(* C5: a nested array or object whose body is malformed but whose          *)
(* delimiters balance is skipped to its closing delimiter, an empty array  *)
(* or object stands for it, exactly one error is recorded for it, and the  *)
(* siblings after it are parsed: the errors are as many as the malformed   *)
(* regions.                                                                *)
OneErrorPerRegion ==
    (input \in SiblingInputs /\ pc \in {"report", "done"}) =>
        /\ val = Some(VArray(ElementsFrom(input, 2)))
        /\ Len(errs) = Cardinality(MalformedLines(input))
        /\ \A l \in MalformedLines(input) :
              Cardinality({ i \in 1..Len(errs) : ErrorInLine(input, i, l) }) = 1

\* Two malformed regions, the first holding a malformed array of its own,
\* and a well-formed element after them: two errors, three elements.
TwoRegionsTwoErrors ==
    /\ Done
    /\ input \in SiblingInputs
    /\ Cardinality(MalformedLines(input)) = 2
    /\ Len(input) > 12
    /\ input[2] = Ch.lbracket
    /\ input[3] = Ch.lbracket
    /\ Len(errs) = 2
    /\ Len(val[1].v) = 3
    /\ val[1].v[3] = VArray(<<One, Two>>)
    /\ ~result.ok

-----------------------------------------------------------------------------
(* C6: an array body with an empty slot between two commas, as [1, , 2],   *)
(* is no malformed region: a run of one or more commas and line feeds is   *)
(* one separator, so no error is recorded and the array of the elements    *)
(* in order is returned.                                                   *)
EmptySlotAccepted ==
    (/\ Done
     /\ IsArrayText(input)
     /\ HasEmptySlot(input)
     /\ ~MissingSeparator(input)
     /\ ~LeadingComma(input))
    => /\ errs = <<>>
       /\ result.ok
       /\ result.val = Some(ExpectedArray(input))

\* [1, , 2] was returned as the array of 1 and 2.
EmptySlotReturned ==
    /\ Done
    /\ input = EmptySlotExample
    /\ HasEmptySlot(input)
    /\ result.ok
    /\ result.val = Some(VArray(<<One, Two>>))

\* C6 as the description has it: the empty slot makes the array a malformed
\* region, with an error and not the array of its elements.
EmptySlotMalformed ==
    (Done /\ IsArrayText(input) /\ HasEmptySlot(input)) =>
        /\ errs # <<>>
        /\ ~result.ok
        /\ result.val # Some(ExpectedArray(input))

-----------------------------------------------------------------------------
(* Integer literals out of range, read off the text.                       *)

OverflowInputs == Placed(ValuePlaces \cup KeyPlaces, OverflowLiterals)

\* The offset where the literal of an OverflowInputs text starts.
LiteralStart(t) ==
    CHOOSE n \in 0..Len(t) :
        \E pl \in ValuePlaces \cup KeyPlaces, lit \in OverflowLiterals :
            t = pl.pre \o lit \o pl.post /\ n = Len(pl.pre)

-----------------------------------------------------------------------------
(* C7: an integer literal outside the 64-bit signed range makes the parse  *)
(* fail wherever it stands, in the place of a value or of a key: the lexer *)
(* stops at the literal, no token of any kind is made of it, and no value  *)
(* is returned.                                                            *)
OverflowRejected ==
    input \in OverflowInputs =>
        /\ pos <= LiteralStart(input)
        /\ \A i \in 1..Len(spans) : spans[i][2] <= LiteralStart(input)
        /\ val = None
        /\ Done =>
              /\ ~result.ok
              /\ result.val = None
              /\ result.report =
                    <<[kind |-> "lexer", start |-> LiteralStart(input)]>>

\* The lexer refused a literal of nineteen digits or more in the place of
\* a key, after the brace before it was lexed.
OverflowKeyRefused ==
    /\ Done
    /\ input \in Placed(KeyPlaces, OverflowLiterals)
    /\ tokens = <<Tok("LBrace", <<>>)>>
    /\ ~result.ok
    /\ result.report = <<[kind |-> "lexer", start |-> 1]>>

-----------------------------------------------------------------------------
(* Quoted strings, read off the text.                                      *)

IsControl(c) == c \in 0..31

\* A character below U+0020 stands between the quotes, after no backslash.
HasRawControl(t) ==
    \E i \in 2..Len(t) : IsControl(t[i]) /\ t[i - 1] # Ch.backslash

\* The text of StringInputs has no closing quote.
Unterminated(t) == Len(t) < 2 \/ t[Len(t)] # Ch.quote

-----------------------------------------------------------------------------
(* C8: a quoted string holding an unescaped control character, as a raw    *)
(* line feed or tab, or lacking its closing quote, is a lexer error: the   *)
(* result is Err and no String value is made.                              *)
ControlCharRefused ==
    (/\ Done
     /\ input \in StringInputs \cup {TabStringExample}
     /\ HasRawControl(input) \/ Unterminated(input))
    => /\ ~result.ok
       /\ result.val = None
       /\ tokens = <<>>
       /\ result.report # <<>>
       /\ result.report[1].kind = "lexer"

-----------------------------------------------------------------------------
(* Raw strings, read off the text.                                         *)

\* The offset of the first """ at or after offset 3.
FirstClose(t) ==
    CHOOSE i \in 3..(Len(t) - 3) :
        /\ Slice(t, i, i + 3) = TripleQuote
        /\ \A j \in 3..(i - 1) : Slice(t, j, j + 3) # TripleQuote

RawContent(t) == Slice(t, 3, FirstClose(t))

\* The content without one leading LF or CRLF.
ExpectedRaw(t) ==
    IF At(RawContent(t), 0) = Ch.lf THEN Tail(RawContent(t))
    ELSE IF At(RawContent(t), 0) = Ch.cr /\ At(RawContent(t), 1) = Ch.lf
    THEN Tail(Tail(RawContent(t)))
    ELSE RawContent(t)

-----------------------------------------------------------------------------
(* C9: the value of a raw string token is the text between the opening     *)
(* """ and the first """ after it, verbatim and with no escape processed,  *)
(* less exactly one leading LF or CRLF when the content starts with one;   *)
(* a second leading line feed and all later ones are kept.                 *)
RawStringVerbatim ==
    /\ (input \in RawInputs /\ pos > 0) =>
          /\ tokens[1] = Tok("RawString", ExpectedRaw(input))
          /\ spans[1] = <<0, FirstClose(input) + 3>>
    /\ (input \in RawInputs /\ Done) => pos > 0
    /\ (input = RawStringExample /\ Done) =>
          /\ result.ok
          /\ result.val =
                Some(VString(<<Ch.h, Ch.e, Ch.l, Ch.l, Ch.o, Ch.lf, Ch.w, Ch.o,
                               Ch.r, Ch.l, Ch.d, Ch.lf>>))

\* A raw string whose content starts with two line feeds kept the second,
\* and the backslash and n after it.
SecondLineFeedKept ==
    /\ Done
    /\ input \in RawInputs
    /\ input = TripleQuote \o <<Ch.lf, Ch.lf, Ch.backslash, Ch.n>>
                 \o TripleQuote
    /\ result.ok
    /\ result.val = Some(VString(<<Ch.lf, Ch.backslash, Ch.n>>))

-----------------------------------------------------------------------------
(* C10: every parse error reported carries the byte range, in the source   *)
(* text, of the token it is about (the end of the text when the parser ran *)
(* out of tokens), and no index into the sequence of tokens.               *)
SpansAreByteRanges ==
    Done =>
        \A i \in 1..Len(result.report) :
            result.report[i].kind = "parser" =>
                \/ \E j \in 1..Len(spans) : result.report[i].span = spans[j]
                \/ result.report[i].span = <<Len(input), Len(input)>>

-----------------------------------------------------------------------------
(* The two entry points on one text.                                       *)

FileNames == {"<input>", "doc.maml"}

\* What the caller gets: Ok(v) or Some(v) as <<v>>, Err or None as <<>>.
Outcome(r) == [ok |-> r.ok, val |-> r.val]

\* With l what the loop over the lexer gives on the text: from_str, when it
\* ran, returned its outcome a on l, a value exactly when Ok;
\* parse_with_report, when it ran, returned a too, and a is its outcome on l
\* under each file name.
AgreeOn(l, a) ==
    /\ a.ok <=> a.val # None
    /\ Outcome(result) = a
    /\ entry = "parse_with_report" =>
          \A f \in FileNames : Outcome(ParseWithReportLexed(f, l)) = a

AgreeOnLexed(l) == AgreeOn(l, Outcome(FromStrLexed(l)))

-----------------------------------------------------------------------------
(* C11: on every text the two entry points agree, whatever the file name:  *)
(* from_str is Ok(v) exactly when parse_with_report is Some(v), with the   *)
(* same v, and Err exactly when parse_with_report is None.  The entry      *)
(* point that ran returned what it gives as a function of the text.        *)
EntryPointsAgree ==
    Done => AgreeOnLexed(Lexed(input, 0, <<>>))

\* parse_with_report returned None on a text for which the parser had a
\* recovered value and errors, as from_str returns Err for it.
BothRefuseRecovered ==
    /\ Done
    /\ entry = "parse_with_report"
    /\ val # None
    /\ errs # <<>>
    /\ ~result.ok
    /\ result.val = None
    /\ ~from_str(input).ok

-----------------------------------------------------------------------------
(* Nesting, read off the text and off the value.                           *)

\* How many delimiters are open after the first i characters of the text.
OpenAfter(t, i) ==
    Cardinality({ j \in 1..i : t[j] \in {Ch.lbracket, Ch.lbrace} })
    - Cardinality({ j \in 1..i : t[j] \in {Ch.rbracket, Ch.rbrace} })

\* The deepest nesting of the text.
TextDepth(t) ==
    CHOOSE d \in 0..Len(t) :
        /\ \E i \in 0..Len(t) : OpenAfter(t, i) = d
        /\ \A i \in 0..Len(t) : OpenAfter(t, i) <= d

RECURSIVE ValueDepth(_)
\* How deep the arrays and objects of a value nest: the parser went that
\* many levels down to build it.
ValueDepth(v) ==
    IF v.t \in {"Array", "Object"}
    THEN 1 + (CHOOSE d \in 0..MaxDepth + 1 :
                 /\ d = 0 \/ \E k \in DOMAIN v.v : ValueDepth(v.v[k]) = d
                 /\ \A k \in DOMAIN v.v : ValueDepth(v.v[k]) <= d)
    ELSE 0

-----------------------------------------------------------------------------
(* C12: the parser enforces a maximum nesting depth D: a text whose arrays *)
(* and objects nest deeper than D is refused with an error and the parser  *)
(* goes no deeper than D.  Here for a D below the deepest text fed in.     *)
NestingBounded ==
    \E D \in 0..(MaxDepth - 1) :
        (Done /\ input \in NestedInputs /\ TextDepth(input) > D) =>
            /\ ~result.ok
            /\ result.report # <<>>
            /\ val # None => ValueDepth(val[1]) <= D

=============================================================================
